---- MODULE Spec2Model ----
(***************************************************************************)
(* Model of the QuizRewards ledger contract (src/unnamed/part_000), of    *)
(* the client-side leaderboard derivation (Leaderboard.tsx) and of the    *)
(* QuizPlayer components that take a quiz and send its reward             *)
(* transactions (QuizPlayer.tsx, QuizGenerator.tsx).  Spec is the ledger   *)
(* under arbitrary callers; ReadSideSpec is the ledger with the writes the *)
(* views read from; RunnerSpec is one browser session against the ledger,  *)
(* and RunnerFairSpec the same with a fair timer.                          *)
(*                                                                         *)
(* Every public function of the contract is one atomic action: a call      *)
(* either applies all of its writes or reverts and leaves the storage as   *)
(* it was.  Callers are externally owned accounts, so the receiver hook of *)
(* _safeMint is never invoked.  lastRevert tells how the call applied last *)
(* ended: NoRevert when it succeeded, else the function called and the     *)
(* revert string of the require that failed.                               *)
(*                                                                         *)
(* block.timestamp is an input of a call.  It is positive, never smaller   *)
(* than the timestamp of an earlier call, and equal for calls of one       *)
(* block.  Only recordQuizCompletion reads it, so the input is drawn       *)
(* relative to the completion recorded last: same block, or a later one.   *)
(***************************************************************************)
EXTENDS Integers, Sequences, FiniteSets, TLC

\* ---------------------------------------------------------------- bounds
MaxHistory == 2     \* accepted recordQuizCompletion calls
MaxTokens == 2      \* accepted claimNFTReward calls
MaxQuestions == 2   \* questions of the quiz a QuizPlayer component plays
MaxFlows == 2       \* reward flows of one session in flight at a time

\* ---------------------------------------------------------------- values
\* Strings that the contract compares are sequences of character codes:
\* "q" and "q1" (the first a proper prefix of the second) are the ids that
\* callers create and use, "m" is an id that is only ever queried.
QuizIdQ == <<113>>
QuizIdQ1 == <<113, 49>>
QuizIdMissing == <<109>>
QuizIds == {QuizIdQ, QuizIdQ1}
QueryIds == QuizIds \cup {QuizIdMissing}
EmptyString == <<>>

Players == {"0xA", "0xB"}
ZeroAddress == "0x0"

\* Arguments of createQuiz: <<title, nftMetadata>>.
QuizInputs == {<<"Intro", "ipfs://a">>, <<"Other", "ipfs://b">>}
\* Arguments of recordQuizCompletion: <<score, attempts>>.
CompletionInputs == {<<0, 1>>, <<1, 0>>}

\* Default (zero) values of the storage mappings.
NoQuizData == [title |-> "", nftMetadata |-> "", exists |-> FALSE]
NoCompletion == [player |-> ZeroAddress, timestamp |-> 0, score |-> 0,
                 quizId |-> EmptyString, attempts |-> 0]

\* Revert strings of the require statements.
ErrQuizExists == "Quiz already exists"
ErrQuizMissing == "Quiz does not exist"
ErrNotCompleted == "Quiz not completed by user"

VARIABLES
    quizzes,            \* mapping(string => QuizData)
    quizCompletions,    \* mapping(address => mapping(string => QuizCompletion))
    allCompletions,     \* QuizCompletion[]
    nextTokenId,        \* _nextTokenId
    owners,             \* ERC721 owner of token id k is owners[k + 1]
    tokenURIs,          \* ERC721URIStorage uri of token id k is tokenURIs[k + 1]
    quizCreatedLog,     \* the QuizCreated events emitted so far
    quizCompletedLog,   \* the QuizCompleted events emitted so far
    rewardClaimedLog,   \* the NFTRewardClaimed events emitted so far
    lastRevert,         \* the revert of the call applied last, if it reverted
    session,            \* the React state of the mounted QuizPlayer component
    flow                \* the transactions the running reward flow has sent

vars == <<quizzes, quizCompletions, allCompletions, nextTokenId, owners,
          tokenURIs, quizCreatedLog, quizCompletedLog, rewardClaimedLog,
          lastRevert, session, flow>>

\* The state of the browser session.
runner == <<session, flow>>

\* The contract's storage and the events it has emitted.
ledger == <<quizzes, quizCompletions, allCompletions, nextTokenId, owners,
            tokenURIs, quizCreatedLog, quizCompletedLog, rewardClaimedLog>>

NoRevert == [op |-> "", reason |-> ""]

\* No QuizPlayer component is mounted.
NoSession == [component |-> "none"]
Revert(op, reason) == [op |-> op, reason |-> reason]

Init ==
    /\ quizzes = [q \in QuizIds |-> NoQuizData]
    /\ quizCompletions = [p \in Players |-> [q \in QuizIds |-> NoCompletion]]
    /\ allCompletions = <<>>
    /\ nextTokenId = 0
    /\ owners = <<>>
    /\ tokenURIs = <<>>
    /\ quizCreatedLog = <<>>
    /\ quizCompletedLog = <<>>
    /\ rewardClaimedLog = <<>>
    /\ lastRevert = NoRevert
    /\ session = NoSession
    /\ flow = <<>>

\* The values block.timestamp can take in the next recordQuizCompletion.
BlockTimestamps ==
    IF allCompletions = <<>> THEN {1}
    ELSE LET last == allCompletions[Len(allCompletions)].timestamp
         IN {last, last + 1}

\* ------------------------------------------------------------- hashing
\* abi.encodePacked(string) is the string's bytes.
encodePacked(s) == s

\* keccak256 as an ideal hash: the digest is a symbolic term over the input,
\* so two digests are equal exactly when the inputs are.
keccak256(bytes) == [keccak256 |-> bytes]

\* ------------------------------------------------------------- actions
\* Mutant: the existence check is dropped and the record is overwritten.
createQuiz_Overwrite(quizId, title, nftMetadata) ==
    /\ quizzes' = [quizzes EXCEPT ![quizId] =
                      [title |-> title, nftMetadata |-> nftMetadata,
                       exists |-> TRUE]]
    /\ quizCreatedLog' = Append(quizCreatedLog,
                      [quizId |-> quizId, title |-> title,
                       nftMetadata |-> nftMetadata])
    /\ lastRevert' = NoRevert
    /\ UNCHANGED <<quizCompletions, allCompletions, nextTokenId, owners,
                   tokenURIs, quizCompletedLog, rewardClaimedLog>>

\* createQuiz does not read msg.sender.
createQuiz(quizId, title, nftMetadata) ==
    IF quizzes[quizId].exists
    THEN /\ lastRevert' = Revert("createQuiz", ErrQuizExists)
         /\ UNCHANGED ledger
    ELSE /\ quizzes' = [quizzes EXCEPT ![quizId] =
                           [title |-> title, nftMetadata |-> nftMetadata,
                            exists |-> TRUE]]
         /\ quizCreatedLog' = Append(quizCreatedLog,
                           [quizId |-> quizId, title |-> title,
                            nftMetadata |-> nftMetadata])
         /\ lastRevert' = NoRevert
         /\ UNCHANGED <<quizCompletions, allCompletions, nextTokenId, owners,
                        tokenURIs, quizCompletedLog, rewardClaimedLog>>

\* checkIn only emits CheckedIn(msg.sender, block.timestamp).
checkIn(caller) ==
    /\ lastRevert' = NoRevert
    /\ UNCHANGED ledger

\* Mutant: the quiz-existence check is dropped.
recordQuizCompletion_Unchecked(caller, blockTimestamp, quizId, score, attempts) ==
    LET newCompletion == [player |-> caller, timestamp |-> blockTimestamp,
                          score |-> score, quizId |-> quizId,
                          attempts |-> attempts]
    IN /\ Len(allCompletions) < MaxHistory
       /\ quizCompletions' =
              [quizCompletions EXCEPT ![caller][quizId] = newCompletion]
       /\ allCompletions' = Append(allCompletions, newCompletion)
       /\ quizCompletedLog' = Append(quizCompletedLog,
              [user |-> caller, quizId |-> quizId, score |-> score,
               timestamp |-> blockTimestamp, attempts |-> attempts])
       /\ lastRevert' = NoRevert
       /\ UNCHANGED <<quizzes, nextTokenId, owners, tokenURIs,
                      quizCreatedLog, rewardClaimedLog>>

\* Mutant: a repeated completion replaces the player's earlier history entry
\* for the quiz instead of being appended after it.
recordQuizCompletion_Replace(caller, blockTimestamp, quizId, score, attempts) ==
    IF ~quizzes[quizId].exists
    THEN /\ lastRevert' = Revert("recordQuizCompletion", ErrQuizMissing)
         /\ UNCHANGED ledger
    ELSE LET newCompletion == [player |-> caller, timestamp |-> blockTimestamp,
                               score |-> score, quizId |-> quizId,
                               attempts |-> attempts]
             kept == SelectSeq(allCompletions,
                         LAMBDA c : ~(c.player = caller /\ c.quizId = quizId))
         IN /\ Len(allCompletions) < MaxHistory
            /\ quizCompletions' =
                   [quizCompletions EXCEPT ![caller][quizId] = newCompletion]
            /\ allCompletions' = Append(kept, newCompletion)
            /\ quizCompletedLog' = Append(quizCompletedLog,
                   [user |-> caller, quizId |-> quizId, score |-> score,
                    timestamp |-> blockTimestamp, attempts |-> attempts])
            /\ lastRevert' = NoRevert
            /\ UNCHANGED <<quizzes, nextTokenId, owners, tokenURIs,
                           quizCreatedLog, rewardClaimedLog>>

\* Mutant: the completion is stored but QuizCompleted is not emitted.
recordQuizCompletion_NoEvent(caller, blockTimestamp, quizId, score, attempts) ==
    IF ~quizzes[quizId].exists
    THEN /\ lastRevert' = Revert("recordQuizCompletion", ErrQuizMissing)
         /\ UNCHANGED ledger
    ELSE LET newCompletion == [player |-> caller, timestamp |-> blockTimestamp,
                               score |-> score, quizId |-> quizId,
                               attempts |-> attempts]
         IN /\ Len(allCompletions) < MaxHistory
            /\ quizCompletions' =
                   [quizCompletions EXCEPT ![caller][quizId] = newCompletion]
            /\ allCompletions' = Append(allCompletions, newCompletion)
            /\ lastRevert' = NoRevert
            /\ UNCHANGED <<quizzes, nextTokenId, owners, tokenURIs,
                           quizCreatedLog, quizCompletedLog, rewardClaimedLog>>

\* Mutant: a completion equal to an entry of the history is not appended again.
recordQuizCompletion_Idempotent(caller, blockTimestamp, quizId, score, attempts) ==
    IF ~quizzes[quizId].exists
    THEN /\ lastRevert' = Revert("recordQuizCompletion", ErrQuizMissing)
         /\ UNCHANGED ledger
    ELSE LET newCompletion == [player |-> caller, timestamp |-> blockTimestamp,
                               score |-> score, quizId |-> quizId,
                               attempts |-> attempts]
             known == \E k \in 1..Len(allCompletions) :
                          allCompletions[k] = newCompletion
         IN /\ Len(allCompletions) < MaxHistory
            /\ quizCompletions' =
                   [quizCompletions EXCEPT ![caller][quizId] = newCompletion]
            /\ allCompletions' = IF known THEN allCompletions
                                 ELSE Append(allCompletions, newCompletion)
            /\ quizCompletedLog' = Append(quizCompletedLog,
                   [user |-> caller, quizId |-> quizId, score |-> score,
                    timestamp |-> blockTimestamp, attempts |-> attempts])
            /\ lastRevert' = NoRevert
            /\ UNCHANGED <<quizzes, nextTokenId, owners, tokenURIs,
                           quizCreatedLog, rewardClaimedLog>>

\* Mutant: the first completion of a pair stays the current one.
recordQuizCompletion_FirstWins(caller, blockTimestamp, quizId, score, attempts) ==
    IF ~quizzes[quizId].exists
    THEN /\ lastRevert' = Revert("recordQuizCompletion", ErrQuizMissing)
         /\ UNCHANGED ledger
    ELSE LET newCompletion == [player |-> caller, timestamp |-> blockTimestamp,
                               score |-> score, quizId |-> quizId,
                               attempts |-> attempts]
         IN /\ Len(allCompletions) < MaxHistory
            /\ quizCompletions' =
                   IF quizCompletions[caller][quizId].timestamp > 0
                   THEN quizCompletions
                   ELSE [quizCompletions EXCEPT
                            ![caller][quizId] = newCompletion]
            /\ allCompletions' = Append(allCompletions, newCompletion)
            /\ quizCompletedLog' = Append(quizCompletedLog,
                   [user |-> caller, quizId |-> quizId, score |-> score,
                    timestamp |-> blockTimestamp, attempts |-> attempts])
            /\ lastRevert' = NoRevert
            /\ UNCHANGED <<quizzes, nextTokenId, owners, tokenURIs,
                           quizCreatedLog, rewardClaimedLog>>

\* Mutant: the completion is attributed to a player other than the caller.
recordQuizCompletion_ForOther(caller, blockTimestamp, quizId, score, attempts) ==
    IF ~quizzes[quizId].exists
    THEN /\ lastRevert' = Revert("recordQuizCompletion", ErrQuizMissing)
         /\ UNCHANGED ledger
    ELSE LET other == CHOOSE p \in Players : p # caller
             newCompletion == [player |-> other, timestamp |-> blockTimestamp,
                               score |-> score, quizId |-> quizId,
                               attempts |-> attempts]
         IN /\ Len(allCompletions) < MaxHistory
            /\ quizCompletions' =
                   [quizCompletions EXCEPT ![other][quizId] = newCompletion]
            /\ allCompletions' = Append(allCompletions, newCompletion)
            /\ quizCompletedLog' = Append(quizCompletedLog,
                   [user |-> caller, quizId |-> quizId, score |-> score,
                    timestamp |-> blockTimestamp, attempts |-> attempts])
            /\ lastRevert' = NoRevert
            /\ UNCHANGED <<quizzes, nextTokenId, owners, tokenURIs,
                           quizCreatedLog, rewardClaimedLog>>

recordQuizCompletion(caller, blockTimestamp, quizId, score, attempts) ==
    IF ~quizzes[quizId].exists
    THEN /\ lastRevert' = Revert("recordQuizCompletion", ErrQuizMissing)
         /\ UNCHANGED ledger
    ELSE LET newCompletion == [player |-> caller, timestamp |-> blockTimestamp,
                               score |-> score, quizId |-> quizId,
                               attempts |-> attempts]
         IN /\ Len(allCompletions) < MaxHistory
            /\ quizCompletions' =
                   [quizCompletions EXCEPT ![caller][quizId] = newCompletion]
            /\ allCompletions' = Append(allCompletions, newCompletion)
            /\ quizCompletedLog' = Append(quizCompletedLog,
                   [user |-> caller, quizId |-> quizId, score |-> score,
                    timestamp |-> blockTimestamp, attempts |-> attempts])
            /\ lastRevert' = NoRevert
            /\ UNCHANGED <<quizzes, nextTokenId, owners, tokenURIs,
                           quizCreatedLog, rewardClaimedLog>>

\* Mutant: a completion of the quiz by any player is accepted.
claimNFTReward_AnyPlayer(caller, quizId) ==
    IF ~quizzes[quizId].exists
    THEN /\ lastRevert' = Revert("claimNFTReward", ErrQuizMissing)
         /\ UNCHANGED ledger
    ELSE IF ~(\E p \in Players : quizCompletions[p][quizId].timestamp > 0)
    THEN /\ lastRevert' = Revert("claimNFTReward", ErrNotCompleted)
         /\ UNCHANGED ledger
    ELSE LET tokenId == nextTokenId
         IN /\ nextTokenId < MaxTokens
            /\ nextTokenId' = nextTokenId + 1
            /\ owners' = Append(owners, caller)
            /\ tokenURIs' = Append(tokenURIs, quizzes[quizId].nftMetadata)
            /\ rewardClaimedLog' = Append(rewardClaimedLog,
                   [user |-> caller, quizId |-> quizId, tokenId |-> tokenId])
            /\ lastRevert' = NoRevert
            /\ UNCHANGED <<quizzes, quizCompletions, allCompletions,
                           quizCreatedLog, quizCompletedLog>>

\* Mutant: the counter is incremented before it is read (++_nextTokenId).
claimNFTReward_PreIncrement(caller, quizId) ==
    IF ~quizzes[quizId].exists
    THEN /\ lastRevert' = Revert("claimNFTReward", ErrQuizMissing)
         /\ UNCHANGED ledger
    ELSE IF ~(quizCompletions[caller][quizId].timestamp > 0)
    THEN /\ lastRevert' = Revert("claimNFTReward", ErrNotCompleted)
         /\ UNCHANGED ledger
    ELSE LET tokenId == nextTokenId + 1
         IN /\ nextTokenId < MaxTokens
            /\ nextTokenId' = nextTokenId + 1
            /\ owners' = Append(owners, caller)
            /\ tokenURIs' = Append(tokenURIs, quizzes[quizId].nftMetadata)
            /\ rewardClaimedLog' = Append(rewardClaimedLog,
                   [user |-> caller, quizId |-> quizId, tokenId |-> tokenId])
            /\ lastRevert' = NoRevert
            /\ UNCHANGED <<quizzes, quizCompletions, allCompletions,
                           quizCreatedLog, quizCompletedLog>>

\* Mutant: the completion check is dropped.
claimNFTReward_NoCompletionCheck(caller, quizId) ==
    IF ~quizzes[quizId].exists
    THEN /\ lastRevert' = Revert("claimNFTReward", ErrQuizMissing)
         /\ UNCHANGED ledger
    ELSE IF ~(TRUE)
    THEN /\ lastRevert' = Revert("claimNFTReward", ErrNotCompleted)
         /\ UNCHANGED ledger
    ELSE LET tokenId == nextTokenId
         IN /\ nextTokenId < MaxTokens
            /\ nextTokenId' = nextTokenId + 1
            /\ owners' = Append(owners, caller)
            /\ tokenURIs' = Append(tokenURIs, quizzes[quizId].nftMetadata)
            /\ rewardClaimedLog' = Append(rewardClaimedLog,
                   [user |-> caller, quizId |-> quizId, tokenId |-> tokenId])
            /\ lastRevert' = NoRevert
            /\ UNCHANGED <<quizzes, quizCompletions, allCompletions,
                           quizCreatedLog, quizCompletedLog>>

\* Mutant: the token URI is set from the quiz title.
claimNFTReward_TitleAsURI(caller, quizId) ==
    IF ~quizzes[quizId].exists
    THEN /\ lastRevert' = Revert("claimNFTReward", ErrQuizMissing)
         /\ UNCHANGED ledger
    ELSE IF ~(quizCompletions[caller][quizId].timestamp > 0)
    THEN /\ lastRevert' = Revert("claimNFTReward", ErrNotCompleted)
         /\ UNCHANGED ledger
    ELSE LET tokenId == nextTokenId
         IN /\ nextTokenId < MaxTokens
            /\ nextTokenId' = nextTokenId + 1
            /\ owners' = Append(owners, caller)
            /\ tokenURIs' = Append(tokenURIs, quizzes[quizId].title)
            /\ rewardClaimedLog' = Append(rewardClaimedLog,
                   [user |-> caller, quizId |-> quizId, tokenId |-> tokenId])
            /\ lastRevert' = NoRevert
            /\ UNCHANGED <<quizzes, quizCompletions, allCompletions,
                           quizCreatedLog, quizCompletedLog>>

\* Mutant: the claim consumes the completion it was granted for.
claimNFTReward_ConsumesCompletion(caller, quizId) ==
    IF ~quizzes[quizId].exists
    THEN /\ lastRevert' = Revert("claimNFTReward", ErrQuizMissing)
         /\ UNCHANGED ledger
    ELSE IF ~(quizCompletions[caller][quizId].timestamp > 0)
    THEN /\ lastRevert' = Revert("claimNFTReward", ErrNotCompleted)
         /\ UNCHANGED ledger
    ELSE LET tokenId == nextTokenId
         IN /\ nextTokenId < MaxTokens
            /\ nextTokenId' = nextTokenId + 1
            /\ owners' = Append(owners, caller)
            /\ tokenURIs' = Append(tokenURIs, quizzes[quizId].nftMetadata)
            /\ rewardClaimedLog' = Append(rewardClaimedLog,
                   [user |-> caller, quizId |-> quizId, tokenId |-> tokenId])
            /\ quizCompletions' =
                   [quizCompletions EXCEPT ![caller][quizId] = NoCompletion]
            /\ lastRevert' = NoRevert
            /\ UNCHANGED <<quizzes, allCompletions,
                           quizCreatedLog, quizCompletedLog>>

claimNFTReward(caller, quizId) ==
    IF ~quizzes[quizId].exists
    THEN /\ lastRevert' = Revert("claimNFTReward", ErrQuizMissing)
         /\ UNCHANGED ledger
    ELSE IF ~(quizCompletions[caller][quizId].timestamp > 0)
    THEN /\ lastRevert' = Revert("claimNFTReward", ErrNotCompleted)
         /\ UNCHANGED ledger
    ELSE LET tokenId == nextTokenId
         IN /\ nextTokenId < MaxTokens
            /\ nextTokenId' = nextTokenId + 1
            /\ owners' = Append(owners, caller)
            /\ tokenURIs' = Append(tokenURIs, quizzes[quizId].nftMetadata)
            /\ rewardClaimedLog' = Append(rewardClaimedLog,
                   [user |-> caller, quizId |-> quizId, tokenId |-> tokenId])
            /\ lastRevert' = NoRevert
            /\ UNCHANGED <<quizzes, quizCompletions, allCompletions,
                           quizCreatedLog, quizCompletedLog>>

\* Mutant: the marker read is the score instead of the timestamp.
hasCompletedQuiz_ScoreMarker(user, quizId) ==
    quizCompletions[user][quizId].score > 0

\* ------------------------------------------------------- view functions
hasCompletedQuiz(user, quizId) ==
    quizCompletions[user][quizId].timestamp > 0

\* Mutant: the comparison accepts an entry whose id starts with the argument.
sameString_Prefix(a, b) ==
    /\ Len(b) <= Len(a)
    /\ SubSeq(a, 1, Len(b)) = b

\* The string comparison of the view functions.
sameString(a, b) ==
    keccak256(encodePacked(a)) = keccak256(encodePacked(b))

\* First loop of getLeaderboard: i is the loop index, count the counter.
RECURSIVE getLeaderboard_count(_, _, _)
getLeaderboard_count(quizId, i, count) ==
    IF i < Len(allCompletions)
    THEN getLeaderboard_count(quizId, i + 1,
             IF sameString(allCompletions[i + 1].quizId, quizId)
             THEN count + 1 ELSE count)
    ELSE count

\* Second loop of getLeaderboard: result[currentIndex] = allCompletions[i].
RECURSIVE getLeaderboard_fill(_, _, _, _)
getLeaderboard_fill(quizId, i, result, currentIndex) ==
    IF i < Len(allCompletions)
    THEN IF sameString(allCompletions[i + 1].quizId, quizId)
         THEN getLeaderboard_fill(quizId, i + 1,
                  [result EXCEPT ![currentIndex + 1] = allCompletions[i + 1]],
                  currentIndex + 1)
         ELSE getLeaderboard_fill(quizId, i + 1, result, currentIndex)
    ELSE result

\* Mutant: the result array is filled from its end.
getLeaderboard_Reversed(quizId) ==
    LET count == getLeaderboard_count(quizId, 0, 0)
        result == getLeaderboard_fill(quizId, 0,
                      [k \in 1..count |-> NoCompletion], 0)
    IN [k \in 1..count |-> result[count + 1 - k]]

getLeaderboard(quizId) ==
    LET count == getLeaderboard_count(quizId, 0, 0)
    IN getLeaderboard_fill(quizId, 0, [k \in 1..count |-> NoCompletion], 0)

RECURSIVE getPlayerQuizCompletions_count(_, _, _)
getPlayerQuizCompletions_count(player, i, count) ==
    IF i < Len(allCompletions)
    THEN getPlayerQuizCompletions_count(player, i + 1,
             IF allCompletions[i + 1].player = player
             THEN count + 1 ELSE count)
    ELSE count

RECURSIVE getPlayerQuizCompletions_fill(_, _, _, _)
getPlayerQuizCompletions_fill(player, i, result, currentIndex) ==
    IF i < Len(allCompletions)
    THEN IF allCompletions[i + 1].player = player
         THEN getPlayerQuizCompletions_fill(player, i + 1,
                  [result EXCEPT ![currentIndex + 1] = allCompletions[i + 1]],
                  currentIndex + 1)
         ELSE getPlayerQuizCompletions_fill(player, i + 1, result, currentIndex)
    ELSE result

\* Mutant: only the player's latest entry for each quiz is returned.
getPlayerQuizCompletions_LatestPerQuiz(player) ==
    LET last(k) == \A j \in (k + 1)..Len(allCompletions) :
                       ~(allCompletions[j].player = player
                         /\ allCompletions[j].quizId = allCompletions[k].quizId)
        RECURSIVE pick(_)
        pick(k) == IF k > Len(allCompletions) THEN <<>>
                   ELSE IF allCompletions[k].player = player /\ last(k)
                        THEN <<allCompletions[k]>> \o pick(k + 1)
                        ELSE pick(k + 1)
    IN pick(1)

getPlayerQuizCompletions(player) ==
    LET count == getPlayerQuizCompletions_count(player, 0, 0)
    IN getPlayerQuizCompletions_fill(player, 0,
           [k \in 1..count |-> NoCompletion], 0)

\* ------------------------------------------ Leaderboard.tsx, fetchLeaderboard
\* Number(v) of a uint256 is exact below 2^53, which covers every value here.
Number(v) == v

\* completions.map(...): one LeaderboardEntry per completion.  The abbreviated
\* display address is not kept.
toLeaderboardEntry(completion, totalQuestions) ==
    [fullAddress |-> completion.player,
     attemptsUntilPerfect |-> Number(completion.attempts),
     totalTime |-> Number(completion.timestamp),
     bestScore |-> Number(completion.score),
     totalAttempts |-> Number(completion.attempts),
     perfectScoreReached |-> (Number(completion.score) = totalQuestions)]

\* Mutant: an entry goes before the entries with an equal timestamp.
RECURSIVE sortByTotalTime_TiesReversed(_)
sortByTotalTime_TiesReversed(entries) ==
    IF entries = <<>> THEN <<>>
    ELSE LET n == Len(entries)
             sorted == sortByTotalTime_TiesReversed(SubSeq(entries, 1, n - 1))
             e == entries[n]
             before == SelectSeq(sorted, LAMBDA x : x.totalTime - e.totalTime < 0)
             after == SelectSeq(sorted, LAMBDA x : x.totalTime - e.totalTime >= 0)
         IN before \o <<e>> \o after

\* Array.prototype.sort with (a, b) => a.totalTime - b.totalTime is stable:
\* an entry goes after every entry that does not compare greater.
RECURSIVE sortByTotalTime(_)
sortByTotalTime(entries) ==
    IF entries = <<>> THEN <<>>
    ELSE LET n == Len(entries)
             sorted == sortByTotalTime(SubSeq(entries, 1, n - 1))
             e == entries[n]
             before == SelectSeq(sorted, LAMBDA x : x.totalTime - e.totalTime <= 0)
             after == SelectSeq(sorted, LAMBDA x : x.totalTime - e.totalTime > 0)
         IN before \o <<e>> \o after

\* Mutant: the score filter is dropped.
fetchLeaderboard_NoFilter(quizId, totalQuestions) ==
    LET completions == getLeaderboard(quizId)
        mapped == [k \in 1..Len(completions) |->
                      toLeaderboardEntry(completions[k], totalQuestions)]
    IN sortByTotalTime(mapped)

\* The leaderboard the component displays for a quiz with totalQuestions
\* questions: map, filter on bestScore > 0, sort by timestamp.
fetchLeaderboard(quizId, totalQuestions) ==
    LET completions == getLeaderboard(quizId)
        mapped == [k \in 1..Len(completions) |->
                      toLeaderboardEntry(completions[k], totalQuestions)]
        leaderboardData == SelectSeq(mapped, LAMBDA entry : entry.bestScore > 0)
    IN sortByTotalTime(leaderboardData)

\* completions.map(...) of the second Leaderboard component (l.166-182).  The
\* callback assigns the captured totalQuestions: while it is 0, the first
\* score above 0 becomes the total the later entries are compared with.
RECURSIVE mapWithFallback(_, _, _)
mapWithFallback(completions, k, totalQuestions) ==
    IF k > Len(completions) THEN <<>>
    ELSE LET score == Number(completions[k].score)
             total == IF totalQuestions = 0 /\ score > totalQuestions
                      THEN score ELSE totalQuestions
             entry == [fullAddress |-> completions[k].player,
                       attemptsUntilPerfect |-> Number(completions[k].attempts),
                       totalTime |-> Number(completions[k].timestamp),
                       bestScore |-> score,
                       totalAttempts |-> Number(completions[k].attempts),
                       perfectScoreReached |->
                           IF total > 0 THEN score = total ELSE FALSE]
         IN <<entry>> \o mapWithFallback(completions, k + 1, total)

\* The leaderboard of the second Leaderboard component (l.134-196), which
\* goes on with totalQuestions = 0 when the quiz cannot be fetched.
fetchLeaderboardSoftFail(quizId, totalQuestions) ==
    LET completions == getLeaderboard(quizId)
        mapped == mapWithFallback(completions, 1, totalQuestions)
        leaderboardData == SelectSeq(mapped, LAMBDA entry : entry.bestScore > 0)
    IN sortByTotalTime(leaderboardData)

\* quiz.questions?.length || 0 as the quiz catalog can answer it: 0 stands
\* for a quiz that is missing or has no questions.
TotalQuestionCounts == 0..MaxQuestions

\* RewardsPanel.tsx l.240: the classification of a row of the activity log.
isPerfectRow(score) ==
    score.totalQuestions > 0 /\ score.score = score.totalQuestions

\* ------------------------------------------- RewardsPanel.tsx, fetchUserScores
\* The quiz catalog as fetchUserScores reads it: the number of questions of
\* each quiz, 0 for a quiz the API does not deliver.
Catalogs == [QuizIds -> TotalQuestionCounts]

\* One UserScore row per completion (l.62-69); completedAt is kept in seconds.
toUserScore(completion, catalog) ==
    [quizId |-> completion.quizId,
     score |-> Number(completion.score),
     totalQuestions |-> catalog[completion.quizId],
     completedAt |-> Number(completion.timestamp),
     attempts |-> Number(completion.attempts)]

\* validScores.sort((a, b) => b.completedAt - a.completedAt): stable, most
\* recent first.
RECURSIVE sortByMostRecent(_)
sortByMostRecent(scores) ==
    IF scores = <<>> THEN <<>>
    ELSE LET n == Len(scores)
             sorted == sortByMostRecent(SubSeq(scores, 1, n - 1))
             e == scores[n]
             before == SelectSeq(sorted, LAMBDA x : e.completedAt - x.completedAt <= 0)
             after == SelectSeq(sorted, LAMBDA x : e.completedAt - x.completedAt > 0)
         IN before \o <<e>> \o after

\* Mutant: hasCompletedQuiz is read for every row, perfect or not.
fetchUserScores_EveryRow(userAddress, catalog) ==
    LET completions == getPlayerQuizCompletions(userAddress)
        scores == [k \in 1..Len(completions) |->
                      toUserScore(completions[k], catalog)]
        validScores == sortByMostRecent(scores)
        claimed == [q \in {q \in QuizIds :
                               \E k \in 1..Len(validScores) :
                                   validScores[k].quizId = q} |->
                       hasCompletedQuiz(userAddress, q)]
    IN [userScores |-> validScores, claimedNFTs |-> claimed]

\* fetchUserScores (l.29-98) for a connected player: the rows of the activity
\* log and the claimed flags.  A flag is loaded from hasCompletedQuiz for the
\* quiz of every row with a perfect score; claimedNFTs has no key for any
\* other quiz.
fetchUserScores(userAddress, catalog) ==
    LET completions == getPlayerQuizCompletions(userAddress)
        scores == [k \in 1..Len(completions) |->
                      toUserScore(completions[k], catalog)]
        validScores == sortByMostRecent(scores)
        claimed == [q \in {q \in QuizIds :
                               \E k \in 1..Len(validScores) :
                                   /\ validScores[k].quizId = q
                                   /\ validScores[k].score =
                                          validScores[k].totalQuestions
                                   /\ validScores[k].totalQuestions > 0} |->
                       hasCompletedQuiz(userAddress, q)]
    IN [userScores |-> validScores, claimedNFTs |-> claimed]

\* RewardsPanel.tsx l.241, 268-293: what the action area of a row shows, from
\* the row and the claimed flags (a missing flag is falsy).
actionArea(score, claimedNFTs) ==
    LET isPerfect == isPerfectRow(score)
        isClaimed == /\ score.quizId \in DOMAIN claimedNFTs
                     /\ claimedNFTs[score.quizId]
    IN IF isPerfect /\ ~isClaimed THEN "Claim NFT"
       ELSE IF isPerfect /\ isClaimed THEN "NFT Minted"
       ELSE "Retake for NFT"

\* ------------------------------------------------------- specification
Next ==
    \/ \E q \in QuizIds, i \in QuizInputs :
           createQuiz(q, i[1], i[2]) /\ UNCHANGED runner
    \/ \E c \in Players : checkIn(c) /\ UNCHANGED runner
    \/ \E c \in Players, t \in BlockTimestamps, q \in QuizIds,
          i \in CompletionInputs :
           recordQuizCompletion(c, t, q, i[1], i[2]) /\ UNCHANGED runner
    \/ \E c \in Players, q \in QuizIds :
           claimNFTReward(c, q) /\ UNCHANGED runner

Spec == Init /\ [][Next]_vars

\* The ledger as the leaderboard and the rewards dashboard read it: they call
\* getLeaderboard, getPlayerQuizCompletions and hasCompletedQuiz, which read
\* the quizzes and the completions; claimNFTReward and checkIn write neither.
ReadSideNext ==
    \/ \E q \in QuizIds, i \in QuizInputs :
           createQuiz(q, i[1], i[2]) /\ UNCHANGED runner
    \/ \E c \in Players, t \in BlockTimestamps, q \in QuizIds,
          i \in CompletionInputs :
           recordQuizCompletion(c, t, q, i[1], i[2]) /\ UNCHANGED runner

ReadSideSpec == Init /\ [][ReadSideNext]_vars

\* ------------------------------------------------ QuizPlayer components
\* The front end holds three QuizPlayer components.  They share the quiz
\* taking (handleAnswer, handleNext) and differ in the reward flow:
\*   QuizPlayer.tsx             claimReward sends claimNFTReward;
\*   QuizGenerator.tsx l.625    claimReward sends recordQuizCompletion, then
\*                              claimNFTReward;
\*   QuizGenerator.tsx l.1003   handleQuizComplete calls saveQuizAttempt and
\*                              handleBlockchainReward when the quiz ends.
\* A reward flow is a sequence of awaited transactions; each await is one
\* step, and session.pc holds, for every flow in flight, the transaction the
\* flow sends next ("idle" for a slot without a flow).  handleRetry of the third component is not modelled.
ClaimOnlyPlayer == "QuizPlayer.tsx"
TwoStepPlayer == "QuizGenerator.tsx:625"
AutoSubmitPlayer == "QuizGenerator.tsx:1003"
Components == {ClaimOnlyPlayer, TwoStepPlayer, AutoSubmitPlayer}

\* useWallet().userAddress: the connected account, or none.
NotConnected == ""
UserAddresses == {"0xA", NotConnected}

\* selectedAnswer against the question's correctAnswer.
NoAnswer == "null"
Answers == {"right", "wrong"}

\* How an awaited transaction ends: the wallet or the node refuses it before
\* it is sent, it is mined, or it is mined and submitDivviReferral throws.
SendOutcomes == {"rejected", "mined", "referralFailed"}

\* The quiz the component plays (its quiz prop).
quiz_id == QuizIdQ

\* The title and metadata the quiz is registered with on the ledger.
quiz_registration == <<"Intro", "ipfs://a">>

\* The attempts argument the components pass to recordQuizCompletion.
FirstAttempt == 1

\* No reward flow is in flight.
NoFlow == [f \in 1..MaxFlows |-> "idle"]

\* Mutant: any score above zero counts as perfect.
isPerfect_AnyCorrect(s) == s.score > 0

\* isPerfect = score === quiz.questions.length
isPerfect(s) == s.score = s.total

\* initializeQuiz of the third component (l.1076-1111) found a completion of
\* the quiz by the player whose score is the number of questions.
perfectAttempt(userAddress, total) ==
    \E k \in 1..Len(getPlayerQuizCompletions(userAddress)) :
        /\ getPlayerQuizCompletions(userAddress)[k].quizId = quiz_id
        /\ Number(getPlayerQuizCompletions(userAddress)[k].score) = total

\* The component after mounting: useState initial values and, in the third
\* component, initializeQuiz.  initialized is false when initializeQuiz
\* returns early (isFrame, no address) or its ledger read throws: attemptCount
\* then keeps its initial value 0.  Otherwise attemptCount is the stored
\* count (0 in fresh browser storage) plus 1, unless a perfect attempt is on
\* the ledger, in which case the quiz is shown as complete.  The first two
\* components have no attempt count and pass 1.
mount(component, userAddress, isMiniPay, total, initialized) ==
    /\ session = NoSession
    /\ LET ran == /\ component = AutoSubmitPlayer
                  /\ initialized
                  /\ userAddress # NotConnected
           done == ran /\ perfectAttempt(userAddress, total)
       IN session' =
              [component |-> component, userAddress |-> userAddress,
               isMiniPay |-> isMiniPay, total |-> total,
               currentQuestionIndex |-> 0, selectedAnswer |-> NoAnswer,
               score |-> IF done THEN total ELSE 0,
               isFinished |-> done, isProcessing |-> FALSE,
               hasClaimed |-> FALSE, pc |-> NoFlow,
               userAnswers |-> IF component = AutoSubmitPlayer
                               THEN [k \in 1..total |-> NoAnswer] ELSE <<>>,
               timeoutPending |-> {},
               attemptCount |-> IF component # AutoSubmitPlayer
                                THEN FirstAttempt
                                ELSE IF ran /\ ~done THEN 1 ELSE 0]
    /\ flow' = <<>>
    /\ UNCHANGED <<ledger, lastRevert>>

\* "Back to Home" on the result screen unmounts the component.
onBack ==
    /\ session # NoSession
    /\ session.isFinished
    /\ session.pc = NoFlow
    /\ session' = NoSession
    /\ flow' = <<>>
    /\ UNCHANGED <<ledger, lastRevert>>

\* handleAnswer (handleAnswerSelect in the third component, which also
\* stores the answer in userAnswers).  No question is rendered once the index
\* has left the questions.
handleAnswer(answer) ==
    /\ session # NoSession
    /\ ~session.isFinished
    /\ session.currentQuestionIndex < session.total
    /\ session' =
           IF session.component = AutoSubmitPlayer
           THEN [session EXCEPT
                    !.selectedAnswer = answer,
                    !.userAnswers[session.currentQuestionIndex + 1] = answer]
           ELSE [session EXCEPT !.selectedAnswer = answer]
    /\ UNCHANGED <<ledger, lastRevert, flow>>

\* calculateFinalScore of the third component over the userAnswers of the
\* render its caller was created in.
RECURSIVE calculateFinalScore(_, _)
calculateFinalScore(userAnswers, i) ==
    IF i > Len(userAnswers) THEN 0
    ELSE (IF userAnswers[i] = "right" THEN 1 ELSE 0)
         + calculateFinalScore(userAnswers, i + 1)

\* handleQuizComplete of the third component: the final score is stored, the
\* quiz is complete, and the reward flow starts for a connected player with a
\* perfect score (saveQuizAttempt, then handleBlockchainReward).
handleQuizComplete(s, userAnswers) ==
    LET finalScore == calculateFinalScore(userAnswers, 1)
        complete == [s EXCEPT !.score = finalScore, !.isFinished = TRUE]
    IN IF isPerfect(complete) /\ s.userAddress # NotConnected
       THEN /\ session' = [complete EXCEPT !.pc[1] = "record"]
            /\ flow' = <<>>
       ELSE /\ session' = complete
            /\ flow' = flow

\* handleNext of the first two components, from the Next button or, with
\* isTimeout, from the interval of the timer effect: the answer is scored
\* unless the timer ran out, then the next question is shown or the quiz is
\* finished.  In the third component this is handleNextQuestion() from the
\* Next button: the next question is shown or handleQuizComplete is called.
handleNext(isTimeout) ==
    /\ session # NoSession
    /\ ~session.isFinished
    /\ session.currentQuestionIndex < session.total
    /\ isTimeout \/ session.selectedAnswer # NoAnswer
    /\ session.component = AutoSubmitPlayer => ~isTimeout
    /\ LET score == IF ~isTimeout /\ session.selectedAnswer = "right"
                    THEN session.score + 1 ELSE session.score
       IN IF session.component = AutoSubmitPlayer
          THEN IF session.currentQuestionIndex < session.total - 1
               THEN /\ session' = [session EXCEPT
                           !.currentQuestionIndex =
                               session.currentQuestionIndex + 1,
                           !.selectedAnswer = NoAnswer]
                    /\ flow' = flow
               ELSE handleQuizComplete(
                        [session EXCEPT !.selectedAnswer = NoAnswer],
                        session.userAnswers)
          ELSE IF session.currentQuestionIndex < session.total - 1
          THEN /\ session' = [session EXCEPT
                      !.score = score,
                      !.currentQuestionIndex = session.currentQuestionIndex + 1,
                      !.selectedAnswer = NoAnswer]
               /\ flow' = flow
          ELSE /\ session' = [session EXCEPT !.score = score,
                                             !.isFinished = TRUE]
               /\ flow' = flow
    /\ UNCHANGED <<ledger, lastRevert>>

\* The interval of the timer effect of the third component finds the timer
\* at 1 or below and schedules handleNextQuestion(true) 100 ms later
\* (l.1117-1124).  The scheduled call belongs to the render in which the
\* effect ran, the one that first showed the current question; the effect
\* does not run once the quiz is complete.
timerExpires ==
    /\ session # NoSession
    /\ session.component = AutoSubmitPlayer
    /\ ~session.isFinished
    /\ session.currentQuestionIndex < session.total
    /\ session.timeoutPending = {}
    /\ session' = [session EXCEPT
           !.timeoutPending = {session.currentQuestionIndex}]
    /\ UNCHANGED <<ledger, lastRevert, flow>>

\* The scheduled handleNextQuestion(true) runs.  It reads currentQuestionIndex
\* and userAnswers of its render (index c, and no answer for question c
\* onwards) and updates the state of the moment: when c is not the last
\* question, the index of the moment is incremented; otherwise
\* handleQuizComplete is called.
timeoutFires ==
    /\ session # NoSession
    /\ \E c \in session.timeoutPending :
           LET s == [session EXCEPT !.selectedAnswer = NoAnswer,
                                    !.timeoutPending = {}]
               staleAnswers == [k \in 1..session.total |->
                                   IF k <= c THEN session.userAnswers[k]
                                   ELSE NoAnswer]
           IN IF c < session.total - 1
              THEN /\ session' = [s EXCEPT !.currentQuestionIndex =
                                      session.currentQuestionIndex + 1]
                   /\ flow' = flow
              ELSE handleQuizComplete(s, staleAnswers)
    /\ UNCHANGED <<ledger, lastRevert>>

\* The slots of session.pc that hold no flow in flight, and the slot the next
\* flow takes.
FreeSlots == {f \in 1..MaxFlows : session.pc[f] = "idle"}

NextSlot == CHOOSE f \in FreeSlots : \A g \in FreeSlots : f <= g

\* The claim button of the result screen is rendered.
claimButtonShown ==
    /\ session # NoSession
    /\ session.component \in {ClaimOnlyPlayer, TwoStepPlayer}
    /\ session.isFinished
    /\ isPerfect(session)
    /\ ~session.hasClaimed

\* claimReward up to its first transaction.  Without an address the first
\* component returns; the second asks the wallet for accounts and returns
\* when it gets none.  The button is enabled whenever isProcessing is false,
\* also while a flow started earlier is still awaiting a transaction; up to
\* MaxFlows flows are in flight, and flow drops the entries of the flow that
\* had the slot before.
claimReward(accounts) ==
    /\ claimButtonShown
    /\ ~session.isProcessing
    /\ FreeSlots # {}
    /\ LET activeAddress ==
               IF session.userAddress # NotConnected THEN session.userAddress
               ELSE IF session.component = TwoStepPlayer THEN accounts
               ELSE NotConnected
       IN IF activeAddress = NotConnected
          THEN UNCHANGED <<session, flow>>
          ELSE /\ session' = [session EXCEPT
                      !.userAddress = activeAddress,
                      !.isProcessing = TRUE,
                      !.pc[NextSlot] = IF session.component = TwoStepPlayer
                                       THEN "record" ELSE "claim"]
               /\ flow' = SelectSeq(flow, LAMBDA e : e.slot # NextSlot)
    /\ UNCHANGED <<ledger, lastRevert>>

\* A transaction the flow awaits (sendTransactionWithDivvi, or writeContract
\* and waitForTransactionReceipt under MiniPay): the call as the ledger
\* applies it, unless it is refused before it is sent.
sendTransaction(functionName, from, quizId, score, attempts, blockTimestamp, outcome) ==
    IF outcome = "rejected"
    THEN UNCHANGED <<ledger, lastRevert>>
    ELSE IF functionName = "recordQuizCompletion"
    THEN recordQuizCompletion(from, blockTimestamp, quizId, score, attempts)
    ELSE claimNFTReward(from, quizId)

\* Whether the awaited transaction throws.  Under MiniPay the receipt of a
\* reverted transaction is not inspected; sendTransactionWithDivvi estimates
\* the gas first, which fails for a call that reverts, and throws when the
\* referral cannot be submitted.
throws(outcome, isMiniPay, reverted) ==
    \/ outcome = "rejected"
    \/ ~isMiniPay /\ (reverted \/ outcome = "referralFailed")

\* What became of the awaited transaction: it was not sent (refused, or the
\* gas estimate of sendTransactionWithDivvi failed because the call reverts),
\* it was mined and reverted, or it was mined and applied.
txStatus(outcome, isMiniPay, reverted) ==
    IF outcome = "rejected" \/ (reverted /\ ~isMiniPay) THEN "notSent"
    ELSE IF reverted THEN "reverted" ELSE "confirmed"

\* An entry of flow: a transaction the reward flow awaited.
FlowEntry(f, functionName, outcome, reverted) ==
    [slot |-> f, functionName |-> functionName, from |-> session.userAddress,
     quizId |-> quiz_id,
     status |-> txStatus(outcome, session.isMiniPay, reverted)]

\* The flow awaits recordQuizCompletion(quiz.id, score, attempts), score
\* being finalScore in the third component, which is the number of questions
\* on the branch of handleQuizComplete that starts the flow, and attempts
\* being 1 in the second component and attemptCount in the third.  claimReward of
\* the second component leaves through its catch block when the call throws;
\* saveQuizAttempt of the third component catches the error and returns
\* false, and handleQuizComplete goes on to handleBlockchainReward.
recordStep(f, outcome, blockTimestamp) ==
    /\ session # NoSession
    /\ session.pc[f] = "record"
    /\ session.isMiniPay => outcome # "referralFailed"
    /\ sendTransaction("recordQuizCompletion", session.userAddress, quiz_id,
                       IF session.component = AutoSubmitPlayer
                       THEN session.total ELSE session.score,
                       session.attemptCount, blockTimestamp, outcome)
    /\ LET reverted == outcome # "rejected" /\ lastRevert' # NoRevert
           threw == throws(outcome, session.isMiniPay, reverted)
       IN /\ flow' = Append(flow,
                         FlowEntry(f, "recordQuizCompletion", outcome, reverted))
          /\ session' =
                 IF session.component = TwoStepPlayer /\ threw
                 THEN [session EXCEPT !.pc[f] = "idle",
                                      !.isProcessing = FALSE]
                 ELSE [session EXCEPT !.pc[f] = "claim"]

\* The flow awaits claimNFTReward(quiz.id).  The first two components set
\* hasClaimed when the call returns; every component then ends the flow.
claimStep(f, outcome) ==
    /\ session # NoSession
    /\ session.pc[f] = "claim"
    /\ session.isMiniPay => outcome # "referralFailed"
    /\ sendTransaction("claimNFTReward", session.userAddress, quiz_id,
                       0, 0, 0, outcome)
    /\ LET reverted == outcome # "rejected" /\ lastRevert' # NoRevert
           threw == throws(outcome, session.isMiniPay, reverted)
       IN /\ flow' = Append(flow,
                         FlowEntry(f, "claimNFTReward", outcome, reverted))
          /\ session' = [session EXCEPT
                 !.pc[f] = "idle",
                 !.isProcessing = FALSE,
                 !.hasClaimed = \/ session.hasClaimed
                                \/ session.component # AutoSubmitPlayer /\ ~threw]

\* The safety timeout claimReward of the second component sets (l.772-777)
\* fires after 45 s while the flow still awaits a transaction: isProcessing is
\* reset and the flow goes on.  The timeout is pending exactly while
\* isProcessing is set: claimReward sets both, and the end of any flow clears
\* both (l.874, 887-888).
safetyTimeout ==
    /\ session # NoSession
    /\ session.component = TwoStepPlayer
    /\ session.pc # NoFlow
    /\ session.isProcessing
    /\ session' = [session EXCEPT !.isProcessing = FALSE]
    /\ UNCHANGED <<ledger, lastRevert, flow>>

\* The timestamp of the block after the one of the last completion.
NextBlockTimestamp ==
    CHOOSE t \in BlockTimestamps : \A u \in BlockTimestamps : u <= t

\* A browser session against the ledger: the quiz is created on the ledger
\* at some point, and a player mounts a component, answers and is rewarded.
\* Each transaction of the session is mined in a block of its own.
RunnerNext ==
    \/ /\ createQuiz(quiz_id, quiz_registration[1], quiz_registration[2])
       /\ UNCHANGED runner
    \/ \E c \in Components, a \in UserAddresses, m \in BOOLEAN,
          n \in 1..MaxQuestions, initialized \in BOOLEAN :
           /\ c = AutoSubmitPlayer => ~m
           /\ c # AutoSubmitPlayer => initialized
           /\ mount(c, a, m, n, initialized)
    \/ onBack
    \/ \E a \in Answers : handleAnswer(a)
    \/ \E isTimeout \in BOOLEAN : handleNext(isTimeout)
    \/ timerExpires
    \/ timeoutFires
    \/ \E accounts \in UserAddresses : claimReward(accounts)
    \/ \E f \in 1..MaxFlows, o \in SendOutcomes :
           recordStep(f, o, NextBlockTimestamp)
    \/ \E f \in 1..MaxFlows, o \in SendOutcomes : claimStep(f, o)
    \/ safetyTimeout

RunnerSpec == Init /\ [][RunnerNext]_vars

\* The browser session with a fair timer: the interval of the timer effect
\* keeps firing while a question is shown, and a scheduled timeout runs.
RunnerFairSpec ==
    /\ RunnerSpec
    /\ WF_vars(handleNext(TRUE))
    /\ WF_vars(timerExpires)
    /\ WF_vars(timeoutFires)

\* ----------------------------------------------------- helpers of the claims
\* Number of rewards minted to player p for quiz q.
RewardsMinted(p, q) ==
    Cardinality({k \in 1..Len(rewardClaimedLog) :
                    rewardClaimedLog[k].user = p /\ rewardClaimedLog[k].quizId = q})

\* Number of completions player p has recorded for quiz q.
CompletionsRecorded(p, q) ==
    Cardinality({k \in 1..Len(allCompletions) :
                    allCompletions[k].player = p /\ allCompletions[k].quizId = q})

\* The positions of the QuizCreated events for quiz q in a log.
CreatedAt(log, q) == {k \in 1..Len(log) : log[k].quizId = q}

\* The first QuizCreated event for quiz q in a log that holds one.
FirstCreated(log, q) ==
    log[CHOOSE k \in CreatedAt(log, q) : \A j \in CreatedAt(log, q) : k <= j]

\* The part of the state a reward mint writes.
rewards == <<nextTokenId, owners, tokenURIs, rewardClaimedLog>>

\* ------------------------------------------------------------------- claims

\* C1: for every player and quiz, the number of rewards minted for the pair
\* never exceeds the number of completions the player recorded for the quiz.
\* (The statement of the claim; the contract violates it.)
C1_AtMostOneRewardPerCompletion ==
    \A p \in Players, q \in QuizIds :
        RewardsMinted(p, q) <= CompletionsRecorded(p, q)

\* C2: a createQuiz for an id that already exists is rejected with
\* "Quiz already exists", and afterwards the stored record of the id still
\* holds the title and metadata of the first successful createQuiz for it.
C2_DuplicateCreateRejected ==
    [][\A q \in QuizIds, i \in QuizInputs :
          (quizzes[q].exists /\ createQuiz(q, i[1], i[2])) =>
              /\ lastRevert' = Revert("createQuiz", ErrQuizExists)
              /\ CreatedAt(quizCreatedLog', q) # {}
              /\ quizzes'[q].exists
              /\ quizzes'[q].title = FirstCreated(quizCreatedLog', q).title
              /\ quizzes'[q].nftMetadata =
                     FirstCreated(quizCreatedLog', q).nftMetadata]_vars

\* C2 witness: a createQuiz was rejected for an id that is taken and whose
\* record is that of the first QuizCreated event for it.
C2_Witness ==
    /\ lastRevert = Revert("createQuiz", ErrQuizExists)
    /\ \E q \in QuizIds :
           /\ quizzes[q].exists
           /\ CreatedAt(quizCreatedLog, q) # {}
           /\ quizzes[q].title = FirstCreated(quizCreatedLog, q).title

\* C3: a recordQuizCompletion for a quiz that does not exist is rejected with
\* "Quiz does not exist"; afterwards the caller has no current completion for
\* the quiz and the history is the one before the call.
C3_RecordForMissingQuizRejected ==
    [][\A c \in Players, t \in BlockTimestamps, q \in QuizIds,
          i \in CompletionInputs :
          (~quizzes[q].exists /\ recordQuizCompletion(c, t, q, i[1], i[2])) =>
              /\ lastRevert' = Revert("recordQuizCompletion", ErrQuizMissing)
              /\ quizCompletions'[c][q] = NoCompletion
              /\ ~hasCompletedQuiz(c, q)'
              /\ allCompletions' = allCompletions]_vars

\* C3 witness: a recordQuizCompletion was rejected while a quiz is missing and
\* the history already holds an entry.
C3_Witness ==
    /\ lastRevert = Revert("recordQuizCompletion", ErrQuizMissing)
    /\ \E q \in QuizIds : ~quizzes[q].exists
    /\ allCompletions # <<>>

\* C4: every accepted recordQuizCompletion by p for q makes hasCompleted(p, q)
\* true and its (score, attempts, timestamp) the current completion; the
\* player's history then ends with that entry, and when p had a current
\* completion for q before, that earlier entry is still in the player's
\* history, at an earlier position.
C4_RepeatedCompletion ==
    [][\A c \in Players, t \in BlockTimestamps, q \in QuizIds,
          i \in CompletionInputs :
          (quizzes[q].exists /\ recordQuizCompletion(c, t, q, i[1], i[2])) =>
              LET before == quizCompletions[c][q]
                  second == [player |-> c, timestamp |-> t, score |-> i[1],
                             quizId |-> q, attempts |-> i[2]]
                  history == getPlayerQuizCompletions(c)'
              IN /\ hasCompletedQuiz(c, q)'
                 /\ quizCompletions'[c][q] = second
                 /\ Len(history) = Len(getPlayerQuizCompletions(c)) + 1
                 /\ history[Len(history)] = second
                 /\ hasCompletedQuiz(c, q) =>
                        \E k \in 1..(Len(history) - 1) : history[k] = before]_vars

\* C4 witness: a player has recorded two completions of one quiz with
\* different scores, and the second one is the current completion.
C4_Witness ==
    \E p \in Players, q \in QuizIds :
        LET history == getPlayerQuizCompletions(p)
        IN /\ Len(history) = 2
           /\ history[1].quizId = q
           /\ history[2].quizId = q
           /\ history[1].score # history[2].score
           /\ quizCompletions[p][q] = history[2]
           /\ hasCompletedQuiz(p, q)

\* C5: claimNFTReward is rejected with "Quiz does not exist" when the quiz
\* does not exist, and otherwise with "Quiz not completed by user" when the
\* caller has no current completion for it, whatever other players have
\* recorded; a rejected claim mints nothing, leaves the counter alone and emits
\* no NFTRewardClaimed event.
C5_ClaimRejections ==
    [][\A c \in Players, q \in QuizIds :
          claimNFTReward(c, q) =>
              /\ ~quizzes[q].exists =>
                     /\ lastRevert' = Revert("claimNFTReward", ErrQuizMissing)
                     /\ UNCHANGED rewards
              /\ (quizzes[q].exists /\ ~hasCompletedQuiz(c, q)) =>
                     /\ lastRevert' = Revert("claimNFTReward", ErrNotCompleted)
                     /\ UNCHANGED rewards]_vars

\* C5 witness: a claim was rejected as not completed although another player
\* has completed the quiz.
C5_Witness ==
    /\ lastRevert = Revert("claimNFTReward", ErrNotCompleted)
    /\ quizzes[QuizIdQ].exists
    /\ ~quizzes[QuizIdQ1].exists
    /\ hasCompletedQuiz("0xA", QuizIdQ)
    /\ ~hasCompletedQuiz("0xB", QuizIdQ)

\* C6: reward ids are allocated sequentially from 0.  The k-th NFTRewardClaimed
\* event carries id k - 1 and the counter is the number of successful claims;
\* a claim by a player with a current completion of the quiz succeeds every
\* time with the next id, and a rejected claim consumes none.
C6_SequentialRewardIds ==
    /\ [](/\ nextTokenId = Len(rewardClaimedLog)
          /\ Len(owners) = nextTokenId
          /\ \A k \in 1..Len(rewardClaimedLog) :
                 rewardClaimedLog[k].tokenId = k - 1)
    /\ [][\A c \in Players, q \in QuizIds :
             claimNFTReward(c, q) =>
                 IF quizzes[q].exists /\ hasCompletedQuiz(c, q)
                 THEN /\ lastRevert' = NoRevert
                      /\ nextTokenId' = nextTokenId + 1
                      /\ rewardClaimedLog' = Append(rewardClaimedLog,
                             [user |-> c, quizId |-> q,
                              tokenId |-> Len(rewardClaimedLog)])
                 ELSE /\ lastRevert' # NoRevert
                      /\ nextTokenId' = nextTokenId]_vars

\* C6 witness: one player has claimed twice for a quiz completed once, and
\* holds the rewards 0 and 1.
C6_Witness ==
    \E p \in Players, q \in QuizIds :
        /\ CompletionsRecorded(p, q) = 1
        /\ rewardClaimedLog = <<[user |-> p, quizId |-> q, tokenId |-> 0],
                                [user |-> p, quizId |-> q, tokenId |-> 1]>>
        /\ owners = <<p, p>>

\* C7, as stated: a claim succeeds only if the caller's current completion of
\* the quiz has a score above 0.
C7_MintRequiresNonZeroScore ==
    [][\A c \in Players, q \in QuizIds :
          (claimNFTReward(c, q) /\ lastRevert' = NoRevert) =>
              quizCompletions[c][q].score > 0]_vars

\* C7, amended: a claim succeeds only if the quiz exists and the caller has a
\* current completion of it (a non-zero timestamp); the score is not read.
C7_MintRequiresCompletion ==
    [][\A c \in Players, q \in QuizIds :
          (claimNFTReward(c, q) /\ lastRevert' = NoRevert) =>
              /\ quizzes[q].exists
              /\ quizCompletions[c][q].timestamp > 0
              /\ quizCompletions[c][q].player = c]_vars

\* C7 witness: a reward was minted to a player for a quiz whose every
\* completion by that player has score 0.
C7_Witness ==
    \E k \in 1..Len(rewardClaimedLog) :
        LET claim == rewardClaimedLog[k]
        IN /\ quizCompletions[claim.user][claim.quizId].score = 0
           /\ owners[k] = claim.user
           /\ \A j \in 1..Len(allCompletions) :
                  (allCompletions[j].player = claim.user
                     /\ allCompletions[j].quizId = claim.quizId)
                  => allCompletions[j].score = 0

\* C8, as stated: no entry returned by getLeaderboard(q) has score 0.
C8_LedgerLeaderboardHasNoZeroScore ==
    \A q \in QueryIds :
        LET raw == getLeaderboard(q)
        IN \A k \in 1..Len(raw) : raw[k].score > 0

\* C8, amended: no entry of the leaderboard that fetchLeaderboard derives from
\* getLeaderboard(q) has score 0, and it has one entry for every entry of
\* getLeaderboard(q) with a score above 0.
C8_DisplayedLeaderboardHasNoZeroScore ==
    \A q \in QueryIds :
        LET shown == fetchLeaderboard(q, 1)
            raw == getLeaderboard(q)
        IN /\ \A k \in 1..Len(shown) : shown[k].bestScore > 0
           /\ Len(shown) = Cardinality({k \in 1..Len(raw) : raw[k].score > 0})

\* C8 witness: getLeaderboard returns a score-0 entry and an entry with a
\* positive score, and the displayed leaderboard holds only the latter.
C8_Witness ==
    \E q \in QuizIds :
        /\ Len(getLeaderboard(q)) = 2
        /\ getLeaderboard(q)[1].score = 0
        /\ getLeaderboard(q)[2].score > 0
        /\ Len(fetchLeaderboard(q, 1)) = 1
        /\ fetchLeaderboard(q, 1)[1].bestScore = getLeaderboard(q)[2].score

\* C9: getLeaderboard(q) is the subsequence of the history whose quizId is
\* exactly q, in append order and without deduplication; it is empty for an
\* id without completions.
C9_LeaderboardIsExactSubsequence ==
    \A q \in QueryIds :
        /\ getLeaderboard(q) =
               SelectSeq(allCompletions, LAMBDA c : c.quizId = q)
        /\ CompletionsRecorded("0xA", q) + CompletionsRecorded("0xB", q) = 0
               => getLeaderboard(q) = <<>>

\* C9 witness: the history holds a completion of "q1" followed by one of "q",
\* and each leaderboard returns its own entry only.
C9_Witness ==
    /\ Len(allCompletions) = 2
    /\ allCompletions[1].quizId = QuizIdQ1
    /\ allCompletions[2].quizId = QuizIdQ
    /\ getLeaderboard(QuizIdQ) = <<allCompletions[2]>>
    /\ getLeaderboard(QuizIdQ1) = <<allCompletions[1]>>
    /\ getLeaderboard(QuizIdMissing) = <<>>

\* C10: the entries returned by getLeaderboard(q) are in non-decreasing
\* timestamp order.
C10_LeaderboardAscendingTimestamps ==
    \A q \in QueryIds :
        LET board == getLeaderboard(q)
        IN \A k \in 1..Len(board), j \in 1..Len(board) :
               k < j => board[k].timestamp <= board[j].timestamp

\* C10 witness: a leaderboard holds two entries recorded in different blocks.
C10_Witness ==
    \E q \in QuizIds :
        LET board == getLeaderboard(q)
        IN /\ Len(board) = 2
           /\ board[1].timestamp < board[2].timestamp

\* C11: getPlayerQuizCompletions(p) is the subsequence of the history whose
\* player is p, over all quizzes, in append order and without deduplication;
\* no entry of another player is in it.
C11_PlayerHistoryIsExactSubsequence ==
    \A p \in Players \cup {ZeroAddress} :
        LET history == getPlayerQuizCompletions(p)
        IN /\ history = SelectSeq(allCompletions, LAMBDA c : c.player = p)
           /\ \A k \in 1..Len(history) : history[k].player = p
           /\ Len(history) = Cardinality({k \in 1..Len(allCompletions) :
                                             allCompletions[k].player = p})

\* C11 witness: the history holds an entry of each player, and each player's
\* history returns that player's entry only.
C11_Witness ==
    /\ Len(allCompletions) = 2
    /\ allCompletions[1].player = "0xB"
    /\ allCompletions[2].player = "0xA"
    /\ getPlayerQuizCompletions("0xA") = <<allCompletions[2]>>
    /\ getPlayerQuizCompletions("0xB") = <<allCompletions[1]>>
    /\ getPlayerQuizCompletions(ZeroAddress) = <<>>

\* C12: hasCompletedQuiz(p, q) is true exactly when the player has a current
\* completion for the quiz, that is exactly when at least one of the player's
\* recordQuizCompletion calls for the quiz was accepted; it is false for every
\* pair initially and, once true, stays true.
C12_HasCompletedIffRecorded ==
    /\ [](\A p \in Players, q \in QuizIds :
             /\ hasCompletedQuiz(p, q) <=> quizCompletions[p][q] # NoCompletion
             /\ hasCompletedQuiz(p, q) <=> CompletionsRecorded(p, q) > 0)
    /\ [][\A p \in Players, q \in QuizIds :
             hasCompletedQuiz(p, q) => hasCompletedQuiz(p, q)']_vars

\* C12 witness: a player completed a quiz twice, the second time with score 0,
\* and has not completed the other quiz; hasCompletedQuiz tells the two apart.
C12_Witness ==
    \E p \in Players, q \in QuizIds, o \in QuizIds :
        /\ CompletionsRecorded(p, q) = 2
        /\ quizCompletions[p][q].score = 0
        /\ hasCompletedQuiz(p, q)
        /\ quizzes[o].exists
        /\ ~hasCompletedQuiz(p, o)

\* C13: once createQuiz(q, title, meta) was accepted, the quiz lookup for q
\* returns exists = true with that title and metadata in every later state:
\* no step changes or deletes an existing quiz, and the record is the one of
\* the single QuizCreated event for q.
C13_QuizzesImmutable ==
    /\ [][\A q \in QuizIds :
             quizzes[q].exists => quizzes'[q] = quizzes[q]]_vars
    /\ [](\A k \in 1..Len(quizCreatedLog) :
             quizzes[quizCreatedLog[k].quizId] =
                 [title |-> quizCreatedLog[k].title,
                  nftMetadata |-> quizCreatedLog[k].nftMetadata,
                  exists |-> TRUE])

\* C13 witness: a quiz was created, then completed and rewarded, and a second
\* createQuiz for its id was rejected; the lookup still returns the record of
\* its QuizCreated event.
C13_Witness ==
    /\ lastRevert = Revert("createQuiz", ErrQuizExists)
    /\ \E q \in QuizIds :
          /\ CreatedAt(quizCreatedLog, q) # {}
          /\ quizzes[q] = [title |-> FirstCreated(quizCreatedLog, q).title,
                           nftMetadata |->
                               FirstCreated(quizCreatedLog, q).nftMetadata,
                           exists |-> TRUE]
          /\ \E p \in Players : CompletionsRecorded(p, q) > 0
                                  /\ RewardsMinted(p, q) > 0

\* A rejected call: a revert reason is returned, no event is emitted, and
\* quizzes, current completions, history, the reward counter, reward
\* ownership and reward metadata are as before.
Rejected(op) ==
    /\ lastRevert'.op = op
    /\ lastRevert'.reason \in {ErrQuizExists, ErrQuizMissing, ErrNotCompleted}
    /\ quizCreatedLog' = quizCreatedLog
    /\ quizCompletedLog' = quizCompletedLog
    /\ rewardClaimedLog' = rewardClaimedLog
    /\ quizzes' = quizzes
    /\ quizCompletions' = quizCompletions
    /\ allCompletions' = allCompletions
    /\ nextTokenId' = nextTokenId
    /\ owners' = owners
    /\ tokenURIs' = tokenURIs

\* C14: createQuiz, recordQuizCompletion and claimNFTReward are
\* all-or-nothing. An accepted call applies its whole effect and emits exactly
\* one event of its kind (QuizCreated, QuizCompleted, NFTRewardClaimed) with
\* the call's values and no event of another kind; a rejected call emits no
\* event and changes nothing of the ledger.
C14_AllOrNothing ==
    [][/\ \A q \in QuizIds, i \in QuizInputs :
             createQuiz(q, i[1], i[2]) =>
                 \/ Rejected("createQuiz")
                 \/ /\ lastRevert' = NoRevert
                    /\ quizzes'[q] = [title |-> i[1], nftMetadata |-> i[2],
                                      exists |-> TRUE]
                    /\ quizCreatedLog' = Append(quizCreatedLog,
                           [quizId |-> q, title |-> i[1],
                            nftMetadata |-> i[2]])
                    /\ quizCompletedLog' = quizCompletedLog
                    /\ rewardClaimedLog' = rewardClaimedLog
       /\ \A c \in Players, t \in BlockTimestamps, q \in QuizIds,
             i \in CompletionInputs :
             recordQuizCompletion(c, t, q, i[1], i[2]) =>
                 \/ Rejected("recordQuizCompletion")
                 \/ /\ lastRevert' = NoRevert
                    /\ quizCompletions'[c][q] =
                           [player |-> c, timestamp |-> t, score |-> i[1],
                            quizId |-> q, attempts |-> i[2]]
                    /\ allCompletions' =
                           Append(allCompletions, quizCompletions'[c][q])
                    /\ quizCompletedLog' = Append(quizCompletedLog,
                           [user |-> c, quizId |-> q, score |-> i[1],
                            timestamp |-> t, attempts |-> i[2]])
                    /\ quizCreatedLog' = quizCreatedLog
                    /\ rewardClaimedLog' = rewardClaimedLog
       /\ \A c \in Players, q \in QuizIds :
             claimNFTReward(c, q) =>
                 \/ Rejected("claimNFTReward")
                 \/ /\ lastRevert' = NoRevert
                    /\ nextTokenId' = nextTokenId + 1
                    /\ owners' = Append(owners, c)
                    /\ tokenURIs' = Append(tokenURIs, quizzes[q].nftMetadata)
                    /\ rewardClaimedLog' = Append(rewardClaimedLog,
                           [user |-> c, quizId |-> q, tokenId |-> nextTokenId])
                    /\ quizCreatedLog' = quizCreatedLog
                    /\ quizCompletedLog' = quizCompletedLog]_vars

\* C14 witness: after an accepted call of each kind (each event log holds an
\* event), a claimNFTReward was rejected.
C14_Witness ==
    /\ lastRevert = Revert("claimNFTReward", ErrNotCompleted)
    /\ quizCreatedLog # <<>>
    /\ quizCompletedLog # <<>>
    /\ rewardClaimedLog # <<>>
    /\ Len(quizCompletedLog) = Len(allCompletions)
    /\ Len(rewardClaimedLog) = nextTokenId

\* C15: the history is append-only. Every accepted recordQuizCompletion, also
\* one whose arguments equal those of an earlier call, makes the history one
\* entry longer by appending at its end; every other step leaves the history
\* as it is; an entry of the history keeps its position and fields.
C15_HistoryAppendOnly ==
    [][/\ \A k \in 1..Len(allCompletions) :
             /\ k <= Len(allCompletions')
             /\ allCompletions'[k] = allCompletions[k]
       /\ \A c \in Players, t \in BlockTimestamps, q \in QuizIds,
             i \in CompletionInputs :
             (quizzes[q].exists /\ recordQuizCompletion(c, t, q, i[1], i[2])) =>
                 /\ Len(allCompletions') = Len(allCompletions) + 1
                 /\ allCompletions'[Len(allCompletions')] =
                        [player |-> c, timestamp |-> t, score |-> i[1],
                         quizId |-> q, attempts |-> i[2]]
       /\ \A c \in Players, q \in QuizIds, i \in QuizInputs :
             (\/ createQuiz(q, i[1], i[2])
              \/ checkIn(c)
              \/ claimNFTReward(c, q)
              \/ (~quizzes[q].exists /\ \E t \in BlockTimestamps,
                     j \in CompletionInputs :
                         recordQuizCompletion(c, t, q, j[1], j[2])))
                 => allCompletions' = allCompletions]_vars

\* C15 witness: the same player recorded the same quiz twice with the same
\* score and attempts in the same block; the history holds both entries.
C15_Witness ==
    /\ Len(allCompletions) = 2
    /\ allCompletions[1] = allCompletions[2]
    /\ lastRevert = NoRevert

\* The positions of the history entries of player p for quiz q.
RecordedAt(p, q) ==
    {k \in 1..Len(allCompletions) :
        allCompletions[k].player = p /\ allCompletions[k].quizId = q}

\* C16: under every interleaving of recordQuizCompletion calls, no call for an
\* existing quiz is rejected, whatever was recorded before, and in every
\* reachable state the current completion of (p, q) is the last history entry
\* of p for q (the zero record when there is none); each accepted submission
\* has its own history entry.
C16_LastAppliedWins ==
    /\ [](\A p \in Players, q \in QuizIds :
             /\ RecordedAt(p, q) = {} => quizCompletions[p][q] = NoCompletion
             /\ RecordedAt(p, q) # {} =>
                    quizCompletions[p][q] =
                        allCompletions[CHOOSE k \in RecordedAt(p, q) :
                                           \A j \in RecordedAt(p, q) : j <= k])
    /\ [](Len(allCompletions) = Len(quizCompletedLog))
    /\ [][\A c \in Players, t \in BlockTimestamps, q \in QuizIds,
             i \in CompletionInputs :
             (quizzes[q].exists /\ recordQuizCompletion(c, t, q, i[1], i[2]))
                 => lastRevert' = NoRevert]_vars

\* C16 witness: a player submitted two different completions of one quiz; both
\* are in the history and the second one is the current completion.
C16_Witness ==
    \E p \in Players, q \in QuizIds :
        /\ RecordedAt(p, q) = {1, 2}
        /\ allCompletions[1].score # allCompletions[2].score
        /\ quizCompletions[p][q] = allCompletions[2]
        /\ quizCompletions[p][q] # allCompletions[1]

\* C17: every history entry and every current completion references a quiz
\* whose exists flag is set.
C17_CompletionsReferenceExistingQuiz ==
    /\ \A k \in 1..Len(allCompletions) :
           /\ allCompletions[k].quizId \in QuizIds
           /\ quizzes[allCompletions[k].quizId].exists
    /\ \A p \in Players, q \in QuizIds :
           quizCompletions[p][q] # NoCompletion =>
               /\ quizCompletions[p][q].quizId = q
               /\ quizzes[q].exists

\* C17 witness: one quiz exists and has a completion in the history and in the
\* mapping; the other quiz does not exist, a completion of it was just
\* rejected, and nothing references it.
C17_Witness ==
    \E p \in Players, q \in QuizIds, o \in QuizIds :
        /\ quizzes[q].exists
        /\ ~quizzes[o].exists
        /\ quizCompletions[p][q] # NoCompletion
        /\ allCompletions # <<>>
        /\ lastRevert = Revert("recordQuizCompletion", ErrQuizMissing)

\* ownerOf(tokenId) and tokenURI(tokenId) of a minted token (ids start at 0).
ownerOf(tokenId) == owners[tokenId + 1]
tokenURI(tokenId) == tokenURIs[tokenId + 1]

\* C18: an accepted claimNFTReward(q) by p mints a token owned by p whose
\* token URI is the nftMetadata stored for q when the claim is made; the owner
\* and URI of every token minted before are unchanged.
C18_MintedRewardOwnerAndMetadata ==
    [][\A c \in Players, q \in QuizIds :
          (/\ quizzes[q].exists
           /\ quizCompletions[c][q].timestamp > 0
           /\ claimNFTReward(c, q)) =>
              /\ Len(owners') = nextTokenId + 1
              /\ Len(tokenURIs') = nextTokenId + 1
              /\ \A id \in {nextTokenId} :
                     /\ ownerOf(id)' = c
                     /\ tokenURI(id)' = quizzes[q].nftMetadata
              /\ \A id \in 0..(nextTokenId - 1) :
                     /\ ownerOf(id)' = ownerOf(id)
                     /\ tokenURI(id)' = tokenURI(id)]_vars

\* C18 witness: two rewards were minted, to different players for quizzes with
\* different metadata; each token has its claimer as owner and its quiz's
\* metadata as URI.
C18_Witness ==
    /\ nextTokenId = 2
    /\ ownerOf(0) # ownerOf(1)
    /\ tokenURI(0) # tokenURI(1)
    /\ \A id \in {0, 1} :
           /\ ownerOf(id) = rewardClaimedLog[id + 1].user
           /\ tokenURI(id) = quizzes[rewardClaimedLog[id + 1].quizId].nftMetadata

\* The positions of flow at which the function was sent to the ledger.
SentAt(functionName) ==
    {k \in 1..Len(flow) : /\ flow[k].functionName = functionName
                          /\ flow[k].status # "notSent"}

\* C19: a component sends claimNFTReward for a quiz only after a
\* recordQuizCompletion for that quiz by the same player was sent and
\* confirmed in the same flow; when the record step failed or was left out,
\* no claim is sent.  (The statement of the claim; two of the three
\* components violate it.)
C19_ClaimOnlyAfterConfirmedRecord ==
    \A k \in SentAt("claimNFTReward") :
        \E j \in SentAt("recordQuizCompletion") :
            /\ j < k
            /\ flow[j].slot = flow[k].slot
            /\ flow[j].status = "confirmed"
            /\ flow[j].quizId = flow[k].quizId
            /\ flow[j].from = flow[k].from

\* The mounted session is finished with every question answered correctly.
PerfectSession ==
    /\ session # NoSession
    /\ session.isFinished
    /\ session.score = session.total

C21_PerfectIffScoreEqualsTotal ==
    \A q \in QuizIds, total \in TotalQuestionCounts :
        /\ \A k \in 1..Len(fetchLeaderboard(q, total)) :
               LET entry == fetchLeaderboard(q, total)[k]
               IN entry.perfectScoreReached <=>
                      (entry.bestScore = total /\ total > 0)
        /\ \A k \in 1..Len(fetchLeaderboardSoftFail(q, total)) :
               LET entry == fetchLeaderboardSoftFail(q, total)[k]
               IN entry.perfectScoreReached <=>
                      (entry.bestScore = total /\ total > 0)

\* The displayed board is the ledger's leaderboard without its score-0
\* entries, entry for entry, and is ascending in timestamp.
IsRankingOf(shown, raw) ==
    LET kept == SelectSeq(raw, LAMBDA c : c.score > 0)
    IN /\ Len(shown) = Len(kept)
       /\ \A k \in 1..Len(kept) :
              /\ shown[k].fullAddress = kept[k].player
              /\ shown[k].bestScore = kept[k].score
              /\ shown[k].totalTime = kept[k].timestamp
              /\ shown[k].totalAttempts = kept[k].attempts
       /\ \A j \in 1..Len(shown), k \in 1..Len(shown) :
              j < k => shown[j].totalTime <= shown[k].totalTime

RECURSIVE MostRecentFirst(_, _)
MostRecentFirst(history, t) ==
    IF t = 0 THEN <<>>
    ELSE SelectSeq(history, LAMBDA c : c.timestamp = t)
             \o MostRecentFirst(history, t - 1)

\* The latest timestamp the history can hold.
LatestTimestamp ==
    IF allCompletions = <<>> THEN 0
    ELSE allCompletions[Len(allCompletions)].timestamp

\* The rows hold a perfect row for quiz q.
HasPerfectRow(rows, q) ==
    \E k \in 1..Len(rows) : rows[k].quizId = q /\ isPerfectRow(rows[k])

C24_AttemptsPositive ==
    /\ \A k \in 1..Len(allCompletions) : allCompletions[k].attempts >= 1
    /\ \A p \in Players, q \in QuizIds :
           quizCompletions[p][q] # NoCompletion =>
               quizCompletions[p][q].attempts >= 1

\* C25: the current completion stored under (p, q) has player p and quiz q;
\* the player of every history entry is the caller that submitted it (the
\* user of the QuizCompleted event of the same position); a
\* recordQuizCompletion of caller c appends an entry of player c and leaves
\* the current completions of every other player as they are.
C25_CompletionsBelongToCaller ==
    /\ [](\A p \in Players, q \in QuizIds :
             quizCompletions[p][q] # NoCompletion =>
                 /\ quizCompletions[p][q].player = p
                 /\ quizCompletions[p][q].quizId = q)
    /\ [](\A k \in 1..Len(allCompletions) :
             /\ k <= Len(quizCompletedLog)
             /\ allCompletions[k].player = quizCompletedLog[k].user)
    /\ [][\A c \in Players, t \in BlockTimestamps, q \in QuizIds,
             i \in CompletionInputs :
             recordQuizCompletion(c, t, q, i[1], i[2]) =>
                 /\ \A p \in Players \ {c} :
                        quizCompletions'[p] = quizCompletions[p]
                 /\ \A k \in (Len(allCompletions) + 1)..Len(allCompletions') :
                        allCompletions'[k].player = c]_vars

\* C25 witness: both players completed the same quiz with different scores,
\* 0xB last; each current completion is the player's own submission.
C25_Witness ==
    \E q \in QuizIds :
        /\ Len(allCompletions) = 2
        /\ allCompletions[1].player = "0xA"
        /\ allCompletions[2].player = "0xB"
        /\ allCompletions[1].quizId = q
        /\ allCompletions[2].quizId = q
        /\ allCompletions[1].score # allCompletions[2].score
        /\ quizCompletions["0xA"][q] = allCompletions[1]
        /\ quizCompletions["0xB"][q] = allCompletions[2]

\* C26: each write of the ledger changes only its own part of the state.
\* recordQuizCompletion by c for q leaves the quizzes, the token counter, the
\* token owners and URIs and the current completion of every other (player,
\* quiz) pair unchanged; claimNFTReward leaves the quizzes, the current
\* completions and the history unchanged; createQuiz(q) leaves every other
\* quiz, the completions, the history and the tokens unchanged.  (The reads
\* are view functions: they are evaluated in a state and have no step.)
C26_WritesChangeOwnPartOnly ==
    [][/\ \A c \in Players, t \in BlockTimestamps, q \in QuizIds,
             i \in CompletionInputs :
             recordQuizCompletion(c, t, q, i[1], i[2]) =>
                 /\ quizzes' = quizzes
                 /\ nextTokenId' = nextTokenId
                 /\ owners' = owners
                 /\ tokenURIs' = tokenURIs
                 /\ \A p \in Players, r \in QuizIds :
                        <<p, r>> # <<c, q>> =>
                            quizCompletions'[p][r] = quizCompletions[p][r]
       /\ \A c \in Players, q \in QuizIds :
             claimNFTReward(c, q) =>
                 /\ quizzes' = quizzes
                 /\ quizCompletions' = quizCompletions
                 /\ allCompletions' = allCompletions
       /\ \A q \in QuizIds, i \in QuizInputs :
             createQuiz(q, i[1], i[2]) =>
                 /\ \A r \in QuizIds \ {q} : quizzes'[r] = quizzes[r]
                 /\ quizCompletions' = quizCompletions
                 /\ allCompletions' = allCompletions
                 /\ nextTokenId' = nextTokenId
                 /\ owners' = owners
                 /\ tokenURIs' = tokenURIs]_vars

\* C26 witness: both quizzes exist, 0xA completed one and 0xB the other, and
\* 0xA holds a token: after the writes of 0xB and the claim, every earlier
\* part of the state is still there.
C26_Witness ==
    /\ \A q \in QuizIds : quizzes[q].exists
    /\ Len(allCompletions) = 2
    /\ allCompletions[1].player = "0xA"
    /\ allCompletions[2].player = "0xB"
    /\ allCompletions[1].quizId # allCompletions[2].quizId
    /\ quizCompletions["0xA"][allCompletions[1].quizId] = allCompletions[1]
    /\ quizCompletions["0xB"][allCompletions[2].quizId] = allCompletions[2]
    /\ nextTokenId = 1
    /\ owners = <<"0xA">>
    /\ lastRevert = NoRevert

\* Player p was minted a reward for quiz q.
RewardClaimed(p, q) ==
    \E k \in 1..Len(rewardClaimedLog) :
        rewardClaimedLog[k].user = p /\ rewardClaimedLog[k].quizId = q

\* C27: in the dashboard loaded from the ledger, the claimed flag of a quiz is
\* true only if the player was minted a reward for the quiz, and a perfect row
\* of a quiz whose reward the player has not claimed shows the claim button.
\* (The statement of the claim; the flag is loaded from hasCompletedQuiz,
\* which holds for every quiz of the history.)
C27_ClaimedOnlyIfRewardClaimed ==
    \A p \in Players, catalog \in Catalogs :
        LET panel == fetchUserScores(p, catalog)
            rows == panel.userScores
        IN /\ \A q \in DOMAIN panel.claimedNFTs :
                  panel.claimedNFTs[q] => RewardClaimed(p, q)
           /\ \A k \in 1..Len(rows) :
                  (isPerfectRow(rows[k]) /\ ~RewardClaimed(p, rows[k].quizId))
                      => actionArea(rows[k], panel.claimedNFTs) = "Claim NFT"

\* The session's step mints a reward: its claimNFTReward was applied.
ClaimApplied ==
    /\ session # NoSession
    /\ \E f \in 1..MaxFlows, o \in SendOutcomes : claimStep(f, o)
    /\ Len(rewardClaimedLog') = Len(rewardClaimedLog) + 1

\* C28: in the components with a claim button, while a reward flow is in
\* flight the button is not enabled, so no second flow starts; a flow whose
\* claimNFTReward was applied leaves the button unavailable, and hasClaimed
\* stays set for the rest of the session; hence a session has at most one
\* claimNFTReward applied.  (The statement of the claim; the safety timeout
\* of the second component and a failed referral submission break it.)
C28_OneFlowOneClaim ==
    /\ []((session # NoSession /\ session.pc # NoFlow
              /\ session.component \in {ClaimOnlyPlayer, TwoStepPlayer})
             => ~(claimButtonShown /\ ~session.isProcessing))
    /\ [][/\ (ClaimApplied
                /\ session.component \in {ClaimOnlyPlayer, TwoStepPlayer})
                 => ~claimButtonShown'
          /\ (session # NoSession /\ session.hasClaimed
                /\ session' # NoSession)
                 => session'.hasClaimed]_vars

\* C29: sendTransactionWithDivvi (the standard wallet path of the reward
\* flows) returns only if the requested write was applied to the ledger and
\* throws only if it was not: on every awaited transaction of a standard
\* session, the call throws exactly when the ledger is left as it was.  (The
\* statement of the claim; a referral submission that fails after the
\* transaction was confirmed makes the call throw.)
C29_OutcomeReportedFaithfully ==
    [][\A f \in 1..MaxFlows, o \in SendOutcomes :
          (/\ session # NoSession
           /\ ~session.isMiniPay
           /\ \/ recordStep(f, o, NextBlockTimestamp)
              \/ claimStep(f, o))
              => LET reverted == o # "rejected" /\ lastRevert' # NoRevert
                 IN throws(o, FALSE, reverted) <=> ledger' = ledger]_vars

\* C30: a quiz session terminates and scores within bounds.  The question
\* index starts at 0, grows by one at a time and stays below the number of
\* questions; the score stays between 0 and the number of questions; once the
\* session is finished it stays finished on the same question; in the first
\* two components the score grows by one, and only on a submission that is
\* no timeout and whose selected answer is the correct one; in the third,
\* whose score is counted from userAnswers at the end, the answer of a
\* question left by its timeout is not counted; and under a fair timer every
\* session finishes.  (The statement of the claim; the third component
\* violates it.)
C30_SessionTerminatesScoreBounded ==
    /\ [](session # NoSession =>
             /\ session.currentQuestionIndex \in 0..(session.total - 1)
             /\ session.score \in 0..session.total)
    /\ [][/\ (session = NoSession /\ session' # NoSession)
                 => session'.currentQuestionIndex = 0
          /\ (session # NoSession /\ session' # NoSession) =>
                 /\ session'.currentQuestionIndex \in
                        {session.currentQuestionIndex,
                         session.currentQuestionIndex + 1}
                 /\ session.isFinished =>
                        /\ session'.isFinished
                        /\ session'.currentQuestionIndex =
                               session.currentQuestionIndex
                        /\ session'.score = session.score
                 /\ session.component # AutoSubmitPlayer =>
                        /\ session'.score \in {session.score, session.score + 1}
                        /\ session'.score # session.score =>
                               /\ handleNext(FALSE)
                               /\ session.selectedAnswer = "right"
                 /\ \A c \in session.timeoutPending :
                        (session'.timeoutPending = {} /\ c < session.total - 1)
                            => session'.userAnswers[c + 1] # "right"]_vars
    /\ (session # NoSession) ~> (session = NoSession \/ session.isFinished)

====
